---- MODULE Spec2Model ----
(***************************************************************************)
(* Model of cmd/stellaratomicswap/main.go: the atomic swap leg on a        *)
(* ledger with weighted-threshold multi-signature accounts.                *)
(*                                                                         *)
(* The tool's commands (initiate/participate through                       *)
(* createAtomicSwapHoldingAccount, auditcontract, redeem, refund) are      *)
(* modelled step by step, one action per network round trip.  The ledger   *)
(* the commands talk to is modelled by LedgerValid/LedgerApply: sequence   *)
(* numbers, time bounds, signer weights against thresholds, the three      *)
(* signer types, and all-or-nothing application of a transaction's         *)
(* operations, and the rejection of signatures that satisfy no signer.     *)
(* Not modelled: fees, minimum reserves, and the removal of a used         *)
(* hash-of-transaction signer (the account is merged away by the only      *)
(* transaction that uses it).  The accounts of the parties exist           *)
(* throughout.                                                             *)
(*                                                                         *)
(* Time is counted in ticks, TicksPerSec of them to a second, so that a    *)
(* time.Time has a sub-second part while ledger time bounds and ledger     *)
(* close times are whole seconds.                                          *)
(***************************************************************************)
EXTENDS Integers, Sequences, FiniteSets, TLC

\* ------------------------------------------------------------------ bounds
MaxTime == 4            \* the clock stops after this many ticks
TicksPerSec == 2        \* ticks per second
MaxAmount == 1          \* largest escrow amount
FundingBalance == 2     \* starting balance of the funding account
MaxSigs == 2            \* signatures on a transaction built outside the tool
MaxExtraSigners == 3    \* signers besides the master key on an audited account
MaxIncoming == 100      \* payments other parties send to a holding account

\* --------------------------------------------------------------- constants
\* The process-wide network selector and the passphrase it starts with.
targetNetwork == "public"

secretSize == 32        \* bytes of a secret
XDRMaxSize == 64        \* xdr.Signature(...).XDRMaxSize(): bytes of a signature
EffectsLimit == 100     \* Limit of the effects request

\* ----------------------------------------------------------------- values
\* An address is the strkey encoding (version byte G) of a public key.
F == <<"G", "funder">>
R == <<"G", "recipient">>
O == <<"G", "other">>
E == <<"G", "holding">>
NoSource == <<"nil", "">>       \* an absent (nil) account reference
Addresses == {F, R, O, E}

Secrets == {"s1", "s2"}

Range(s) == {s[i] : i \in DOMAIN s}

\* hprotocol.KeyTypeNames
KeyTypeAccountID == "ed25519_public_key"
KeyTypeHashTx == "preauth_tx"
KeyTypeHashX == "sha256_hash"
KeyTypeOther == "unknown_key_type"

\* sha256, taken to be collision free: the digest determines the input.
sha256Hash(x) == <<"sha256", x>>

\* strkey.Encode / strkey.Decode with a version byte.
StrkeyEncode(version, payload) == <<version, payload>>
StrkeyDecodeOk(version, key) == key[1] = version
StrkeyDecode(version, key) == key[2]

CreateHashxAddress(hash) == StrkeyEncode("X", hash)
CreateHashTxAddress(hash) == StrkeyEncode("T", hash)

\* ------------------------------------------------------------ transactions
\* Operations are tagged tuples: <<type, source account, ...>>.
OpCreateAccount(src, dest, amount) == <<"create_account", src, dest, amount>>
OpSetSigner(src, key, weight) == <<"set_options_signer", src, key, weight>>
OpSetWeights(src, master, low, med, high) == <<"set_options_weights", src, master, low, med, high>>
OpAccountMerge(src, dest) == <<"account_merge", src, dest>>
OpPayment(src, dest, amount) == <<"payment", src, dest, amount>>
OpType(op) == op[1]
OpSource(op) == op[2]

NoTx == [source |-> NoSource, seq |-> 0, minTime |-> 0, maxTime |-> 0,
         ops |-> <<>>, network |-> ""]
NoEnv == [tx |-> NoTx, sigs |-> <<>>]

\* horizon.Account.IncrementSequenceNumber
IncrementSequenceNumber(account) == [account EXCEPT !.seq = @ + 1]

\* txnbuild.Transaction.Build: the transaction takes the source account's
\* sequence number incremented by one.
Build(account, minTime, maxTime, ops, network) ==
    [source |-> account.id, seq |-> IncrementSequenceNumber(account).seq,
     minTime |-> minTime, maxTime |-> maxTime, ops |-> ops, network |-> network]

\* txnbuild.Transaction.Hash: sha256 over the network id and the transaction
\* body; the signatures of the envelope are not part of it.
TxHash(tx) ==
    sha256Hash(<<tx.network, tx.source, tx.seq, tx.minTime, tx.maxTime, tx.ops>>)

\* Signatures: a key's signature over the transaction, or a bare preimage.
SigEd25519(addr) == <<"ed25519", addr>>
SigHashX(preimage) == <<"hashx", preimage>>

\* time.Time.Unix: whole seconds, the sub-second part dropped.
Unix(t) == t \div TicksPerSec

\* ------------------------------------------------------------------ ledger
\* An account entry of the ledger.  signers holds the signers added with
\* set-options operations; the master key's weight is kept apart.
NoAccount(a) ==
    [id |-> a, exists |-> FALSE, seq |-> 0, balance |-> 0, master |-> 0,
     low |-> 0, med |-> 0, high |-> 0, signers |-> <<>>]

\* A fresh account: master weight 1, all thresholds 0, no other signer.
NewAccount(a, balance, seq) ==
    [id |-> a, exists |-> TRUE, seq |-> seq, balance |-> balance, master |-> 1,
     low |-> 0, med |-> 0, high |-> 0, signers |-> <<>>]

Signer(type, key, weight) == [type |-> type, key |-> key, weight |-> weight]

\* The signers as the ledger client reports them (AccountDetail): the added
\* signers followed by the master key, which is listed even with weight 0.
HorizonSigners(account) ==
    Append(account.signers, Signer(KeyTypeAccountID, account.id, account.master))

\* Whether the envelope satisfies one signer of an account.  An envelope
\* travels as XDR, which carries no network: the ledger hashes the
\* transaction under its own passphrase, the one the client was chosen for.
SigSatisfies(sig, s) ==
    \/ /\ s.type = KeyTypeAccountID
       /\ sig = SigEd25519(s.key)
    \/ /\ s.type = KeyTypeHashX
       /\ sig[1] = "hashx"
       /\ CreateHashxAddress(sha256Hash(sig[2])) = s.key

SignerMatches(s, env) ==
    \/ \E i \in DOMAIN env.sigs : SigSatisfies(env.sigs[i], s)
    \/ /\ s.type = KeyTypeHashTx
       /\ s.key = CreateHashTxAddress(TxHash([env.tx EXCEPT !.network = targetNetwork]))

RECURSIVE SumWeights(_, _)
SumWeights(signers, env) ==
    IF signers = <<>> THEN 0
    ELSE (IF SignerMatches(Head(signers), env) THEN Head(signers).weight ELSE 0)
         + SumWeights(Tail(signers), env)

\* The weight an envelope gathers on an account.
SignatureWeight(account, env) == SumWeights(HorizonSigners(account), env)

\* The account an operation acts on: its own source, else the transaction's.
EffectiveSource(op, tx) == IF OpSource(op) = NoSource THEN tx.source ELSE OpSource(op)

\* The threshold an operation needs on its source account.
OpThreshold(op, account) ==
    IF OpType(op) \in {"set_options_signer", "set_options_weights", "account_merge"}
    THEN account.high
    ELSE account.med

Max(x, y) == IF x >= y THEN x ELSE y

\* Whether the ledger accepts the envelope for application at close time
\* closeTime (seconds) on accounts `accounts`: the source exists, the sequence
\* number is the source's next, the time bounds hold, and on every account
\* the transaction touches the signatures reach the needed threshold, with
\* at least one signer satisfied; no signature is repeated and each one
\* satisfies a signer of non-zero weight.
LedgerValid(accounts, env, closeTime) ==
    LET tx == env.tx IN
    /\ tx.source \in DOMAIN accounts
    /\ accounts[tx.source].exists
    /\ tx.seq = accounts[tx.source].seq + 1
    /\ closeTime >= tx.minTime
    /\ tx.maxTime = 0 \/ closeTime <= tx.maxTime
    /\ tx.ops # <<>>
    /\ SignatureWeight(accounts[tx.source], env) >= Max(accounts[tx.source].low, 1)
    /\ \A i \in DOMAIN tx.ops :
         LET a == EffectiveSource(tx.ops[i], tx) IN
         /\ a \in DOMAIN accounts
         /\ accounts[a].exists
         /\ SignatureWeight(accounts[a], env) >= Max(OpThreshold(tx.ops[i], accounts[a]), 1)
    /\ \A i \in DOMAIN env.sigs :
         /\ \A j \in DOMAIN env.sigs : i # j => env.sigs[i] # env.sigs[j]
         /\ \E a \in {tx.source} \cup {EffectiveSource(tx.ops[k], tx) : k \in DOMAIN tx.ops} :
               \E n \in DOMAIN HorizonSigners(accounts[a]) :
                  /\ HorizonSigners(accounts[a])[n].weight > 0
                  /\ SigSatisfies(env.sigs[i], HorizonSigners(accounts[a])[n])

\* One operation applied to the accounts: <<ok, accounts>>.
ApplyOp(accounts, op, tx) ==
    LET src == EffectiveSource(op, tx) IN
    CASE OpType(op) = "create_account" ->
           IF /\ op[3] \in DOMAIN accounts
              /\ ~accounts[op[3]].exists
              /\ accounts[src].exists
              /\ accounts[src].balance >= op[4]
           THEN <<TRUE, [accounts EXCEPT ![src].balance = @ - op[4],
                                        ![op[3]] = NewAccount(op[3], op[4], 0)]>>
           ELSE <<FALSE, accounts>>
      [] OpType(op) = "set_options_signer" ->
           IF accounts[src].exists /\ op[3] # src /\ op[4] > 0
              /\ \A i \in DOMAIN accounts[src].signers : accounts[src].signers[i].key # op[3]
           THEN <<TRUE, [accounts EXCEPT ![src].signers =
                            Append(@, Signer(
                                CASE op[3][1] = "G" -> KeyTypeAccountID
                                  [] op[3][1] = "X" -> KeyTypeHashX
                                  [] op[3][1] = "T" -> KeyTypeHashTx
                                  [] OTHER -> KeyTypeOther,
                                op[3], op[4]))]>>
           ELSE <<FALSE, accounts>>
      [] OpType(op) = "set_options_weights" ->
           IF accounts[src].exists
           THEN <<TRUE, [accounts EXCEPT ![src].master = op[3], ![src].low = op[4],
                                        ![src].med = op[5], ![src].high = op[6]]>>
           ELSE <<FALSE, accounts>>
      [] OpType(op) = "account_merge" ->
           IF /\ accounts[src].exists
              /\ op[3] \in DOMAIN accounts
              /\ op[3] # src
              /\ accounts[op[3]].exists
           THEN <<TRUE, [accounts EXCEPT ![op[3]].balance = @ + accounts[src].balance,
                                        ![src] = NoAccount(src)]>>
           ELSE <<FALSE, accounts>>
      [] OTHER ->
           IF /\ accounts[src].exists
              /\ op[3] \in DOMAIN accounts
              /\ accounts[op[3]].exists
              /\ accounts[src].balance >= op[4]
           THEN <<TRUE, [[accounts EXCEPT ![src].balance = @ - op[4]]
                                  EXCEPT ![op[3]].balance = @ + op[4]]>>
           ELSE <<FALSE, accounts>>

RECURSIVE ApplyOps(_, _, _)
ApplyOps(accounts, ops, tx) ==
    IF ops = <<>> THEN <<TRUE, accounts>>
    ELSE LET r == ApplyOp(accounts, Head(ops), tx) IN
         IF r[1] THEN ApplyOps(r[2], Tail(ops), tx) ELSE r

\* A valid transaction applied: the source's sequence number is consumed, and
\* the operations take effect all together or, if one fails, not at all.
LedgerApply(accounts, env) ==
    LET bumped == [accounts EXCEPT ![env.tx.source].seq = env.tx.seq]
        r == ApplyOps(bumped, env.tx.ops, env.tx)
    IN  IF r[1] THEN r[2] ELSE bumped

\* Whether every operation of a valid transaction succeeds.
LedgerOpsSucceed(accounts, env) ==
    ApplyOps([accounts EXCEPT ![env.tx.source].seq = env.tx.seq], env.tx.ops, env.tx)[1]

\* stellar.SubmitTransaction against the ledger: a valid envelope is applied
\* and the call succeeds if its operations did; any other envelope is
\* rejected with an error and changes nothing.
SubmitTransaction(accounts, env, closeTime) ==
    IF LedgerValid(accounts, env, closeTime)
    THEN [included |-> TRUE, ok |-> LedgerOpsSucceed(accounts, env),
          accounts |-> LedgerApply(accounts, env)]
    ELSE [included |-> FALSE, ok |-> FALSE, accounts |-> accounts]

\* ------------------------------------------------------------------- state
VARIABLES
    now,        \* the clock, in ticks
    acct,       \* the ledger: address -> account entry
    settled,    \* the transactions the ledger included, in order
    b,          \* the initiate/participate run: its position and locals
    rd,         \* the redeem run: its position and locals
    au,         \* the auditcontract command as parsed from its arguments
    out         \* what the last finished command reported

vars == <<now, acct, settled, b, rd, au, out>>

CloseTime == Unix(now)

EmptyString == <<"", "">>       \* the empty string, where an address is expected
NilBytes == <<"nil", "">>       \* a nil byte slice, where a hash is expected

NoOut == [cmd |-> "", err |-> "", claimed |-> NoTx, recipient |-> EmptyString,
          refundAddress |-> EmptyString, secretHash |-> NilBytes, lockTime |-> 0,
          balance |-> 0, secret |-> NilBytes]

\* txnbuild.TransactionFromXDR of a transaction's base64: the decoded
\* transaction has every field but the network, which XDR does not carry.
TransactionFromXDR(tx) == [tx EXCEPT !.network = ""]

Record(env, res) ==
    IF res.included THEN Append(settled, [env |-> env, ok |-> res.ok])
    ELSE settled

\* --------------------------------------- initiate / participate (builder)
SecretHashes == {sha256Hash(s) : s \in Secrets}
CounterParties == {R, O}

\* What initiate/participate print: nothing, or the parameters of the swap.
NoPrinted ==
    [secretHash |-> NilBytes, holdingAccountAddress |-> EmptyString,
     refundTransaction |-> NoTx]

IdleBuilder ==
    [pc |-> "idle", cp |-> R, secretHash |-> sha256Hash("s1"), locktime |-> 0,
     amount |-> 0, env |-> NoEnv, refundTx |-> NoTx, err |-> "",
     printed |-> NoPrinted]

\* createHoldingAccountTransaction
createHoldingAccountTransaction(holdingAccountAddress, xlmAmount, fundingAccount, network) ==
    Build(fundingAccount, 0, 0,
          <<OpCreateAccount(fundingAccount.id, holdingAccountAddress, xlmAmount)>>, network)

\* createRefundTransaction with no lower time bound on the transaction.
createRefundTransaction_NoTimebound(holdingAccount, refundAccountAdress, locktime) ==
    Build(IncrementSequenceNumber(holdingAccount), 0, 0,
          <<OpAccountMerge(holdingAccount.id, refundAccountAdress)>>, targetNetwork)

\* createRefundTransaction without its own increment of the sequence number.
createRefundTransaction_NoIncrement(holdingAccount, refundAccountAdress, locktime) ==
    Build(holdingAccount, Unix(locktime), 0,
          <<OpAccountMerge(holdingAccount.id, refundAccountAdress)>>, targetNetwork)

\* createRefundTransaction building for another network.
createRefundTransaction_WrongNetwork(holdingAccount, refundAccountAdress, locktime) ==
    Build(IncrementSequenceNumber(holdingAccount), Unix(locktime), 0,
          <<OpAccountMerge(holdingAccount.id, refundAccountAdress)>>, "test")

\* createRefundTransaction incrementing the sequence number twice itself.
createRefundTransaction_DoubleIncrement(holdingAccount, refundAccountAdress, locktime) ==
    Build(IncrementSequenceNumber(IncrementSequenceNumber(holdingAccount)), Unix(locktime), 0,
          <<OpAccountMerge(holdingAccount.id, refundAccountAdress)>>, targetNetwork)

\* createRefundTransaction, after the fetch of the holding account.
createRefundTransaction(holdingAccount, refundAccountAdress, locktime) ==
    Build(IncrementSequenceNumber(holdingAccount), Unix(locktime), 0,
          <<OpAccountMerge(holdingAccount.id, refundAccountAdress)>>, targetNetwork)

\* createHoldingAccountSigningTransaction giving the refund signer weight 1.
createHoldingAccountSigningTransaction_RefundWeight1(holdingAccount, counterPartyAddress, secretHash, refundTxHash, network) ==
    Build(holdingAccount, 0, 0,
          <<OpSetSigner(holdingAccount.id, counterPartyAddress, 1),
            OpSetSigner(holdingAccount.id, CreateHashxAddress(secretHash), 1),
            OpSetSigner(holdingAccount.id, CreateHashTxAddress(refundTxHash), 1),
            OpSetWeights(holdingAccount.id, 0, 2, 2, 2)>>,
          network)

\* createHoldingAccountSigningTransaction leaving out the fourth operation.
createHoldingAccountSigningTransaction_NoWeights(holdingAccount, counterPartyAddress, secretHash, refundTxHash, network) ==
    Build(holdingAccount, 0, 0,
          <<OpSetSigner(holdingAccount.id, counterPartyAddress, 1),
            OpSetSigner(holdingAccount.id, CreateHashxAddress(secretHash), 1),
            OpSetSigner(holdingAccount.id, CreateHashTxAddress(refundTxHash), 2)>>,
          network)

\* createHoldingAccountSigningTransaction setting the thresholds to 1.
createHoldingAccountSigningTransaction_Threshold1(holdingAccount, counterPartyAddress, secretHash, refundTxHash, network) ==
    Build(holdingAccount, 0, 0,
          <<OpSetSigner(holdingAccount.id, counterPartyAddress, 1),
            OpSetSigner(holdingAccount.id, CreateHashxAddress(secretHash), 1),
            OpSetSigner(holdingAccount.id, CreateHashTxAddress(refundTxHash), 2),
            OpSetWeights(holdingAccount.id, 0, 1, 1, 1)>>,
          network)

\* createHoldingAccountSigningTransaction giving the counterparty weight 2.
createHoldingAccountSigningTransaction_RecipientWeight2(holdingAccount, counterPartyAddress, secretHash, refundTxHash, network) ==
    Build(holdingAccount, 0, 0,
          <<OpSetSigner(holdingAccount.id, counterPartyAddress, 2),
            OpSetSigner(holdingAccount.id, CreateHashxAddress(secretHash), 1),
            OpSetSigner(holdingAccount.id, CreateHashTxAddress(refundTxHash), 2),
            OpSetWeights(holdingAccount.id, 0, 2, 2, 2)>>,
          network)

\* createHoldingAccountSigningTransaction
createHoldingAccountSigningTransaction(holdingAccount, counterPartyAddress, secretHash, refundTxHash, network) ==
    Build(holdingAccount, 0, 0,
          <<OpSetSigner(holdingAccount.id, counterPartyAddress, 1),
            OpSetSigner(holdingAccount.id, CreateHashxAddress(secretHash), 1),
            OpSetSigner(holdingAccount.id, CreateHashTxAddress(refundTxHash), 2),
            OpSetWeights(holdingAccount.id, 0, 2, 2, 2)>>,
          network)

\* initiateCmd.runCommand / participateCmd.runCommand up to the call of
\* createAtomicSwapHoldingAccount: the inputs of the run are fixed.
BuilderStart(cp, h, lt, amt) ==
    /\ b.pc = "idle"
    /\ b' = [IdleBuilder EXCEPT !.pc = "getFunding", !.cp = cp, !.secretHash = h,
                                !.locktime = lt, !.amount = amt]
    /\ UNCHANGED <<now, acct, settled, rd, out, au>>

\* createHoldingAccount: fetch the funding account, build and sign the
\* create-account transaction.
GetFundingAccount ==
    /\ b.pc = "getFunding"
    /\ IF acct[F].exists
       THEN b' = [b EXCEPT !.pc = "submitCreate",
                           !.env = [tx |-> createHoldingAccountTransaction(E, b.amount, acct[F], targetNetwork),
                                    sigs |-> <<SigEd25519(F)>>]]
       ELSE b' = [b EXCEPT !.pc = "failed", !.err = "FetchError"]
    /\ UNCHANGED <<now, acct, settled, rd, out, au>>

\* The submission going on to the signing options without a refund
\* transaction built.
SubmitCreate_SkipsRefund ==
    /\ b.pc = "submitCreate"
    /\ LET res == SubmitTransaction(acct, b.env, CloseTime) IN
       /\ acct' = res.accounts
       /\ settled' = Record(b.env, res)
       /\ b' = IF res.ok THEN [b EXCEPT !.pc = "getHolding"]
               ELSE [b EXCEPT !.pc = "failed", !.err = "SubmissionError"]
    /\ UNCHANGED <<now, rd, out, au>>

\* createHoldingAccount: submit the create-account transaction.
SubmitCreate ==
    /\ b.pc = "submitCreate"
    /\ LET res == SubmitTransaction(acct, b.env, CloseTime) IN
       /\ acct' = res.accounts
       /\ settled' = Record(b.env, res)
       /\ b' = IF res.ok THEN [b EXCEPT !.pc = "createRefund"]
               ELSE [b EXCEPT !.pc = "failed", !.err = "SubmissionError"]
    /\ UNCHANGED <<now, rd, out, au>>

\* createRefundTransaction and the hash of its result.
CreateRefund ==
    /\ b.pc = "createRefund"
    /\ IF acct[E].exists
       THEN b' = [b EXCEPT !.pc = "getHolding",
                           !.refundTx = createRefundTransaction(acct[E], F, b.locktime)]
       ELSE b' = [b EXCEPT !.pc = "failed", !.err = "FetchError"]
    /\ UNCHANGED <<now, acct, settled, rd, out, au>>

\* setHoldingAccountSigningOptions building on the account record that
\* createRefundTransaction fetched and left with the refund's sequence number.
GetHoldingAccount_ReusesRecord ==
    /\ b.pc = "getHolding"
    /\ IF acct[E].exists
       THEN b' = [b EXCEPT !.pc = "submitOptions",
                           !.env = [tx |-> createHoldingAccountSigningTransaction(
                                              [acct[E] EXCEPT !.seq = b.refundTx.seq],
                                              b.cp, b.secretHash,
                                              TxHash(b.refundTx), targetNetwork),
                                    sigs |-> <<SigEd25519(E)>>]]
       ELSE b' = [b EXCEPT !.pc = "failed", !.err = "FetchError"]
    /\ UNCHANGED <<now, acct, settled, rd, out, au>>

\* setHoldingAccountSigningOptions: fetch the holding account, build the
\* signing-options transaction and sign it with the holding account's key.
GetHoldingAccount ==
    /\ b.pc = "getHolding"
    /\ IF acct[E].exists
       THEN b' = [b EXCEPT !.pc = "submitOptions",
                           !.env = [tx |-> createHoldingAccountSigningTransaction(
                                              acct[E], b.cp, b.secretHash,
                                              TxHash(b.refundTx), targetNetwork),
                                    sigs |-> <<SigEd25519(E)>>]]
       ELSE b' = [b EXCEPT !.pc = "failed", !.err = "FetchError"]
    /\ UNCHANGED <<now, acct, settled, rd, out, au>>

\* setHoldingAccountSigningOptions: submit the signing-options transaction;
\* on success createAtomicSwapHoldingAccount returns the refund transaction
\* and initiate/participate print it with the holding account's address.
SubmitOptions ==
    /\ b.pc = "submitOptions"
    /\ LET res == SubmitTransaction(acct, b.env, CloseTime) IN
       /\ acct' = res.accounts
       /\ settled' = Record(b.env, res)
       /\ b' = IF res.ok
               THEN [b EXCEPT !.pc = "done",
                              !.printed = [secretHash |-> b.secretHash,
                                           holdingAccountAddress |-> E,
                                           refundTransaction |-> TransactionFromXDR(b.refundTx)]]
               ELSE [b EXCEPT !.pc = "failed", !.err = "SubmissionError"]
    /\ UNCHANGED <<now, rd, out, au>>

\* A failing call whose error is noted while the run goes on.
BuilderClientError_KeepsGoing ==
    /\ b.pc \in {"getFunding", "submitCreate", "createRefund", "getHolding", "submitOptions"}
    /\ b.err = ""
    /\ b' = [b EXCEPT !.err = IF b.pc \in {"submitCreate", "submitOptions"}
                              THEN "SubmissionError" ELSE "FetchError"]
    /\ UNCHANGED <<now, acct, settled, rd, out, au>>

\* A call of the ledger client fails (the error returns at lines 365, 377,
\* 307, 438, 450): the run ends with that error.
BuilderClientError ==
    /\ b.pc \in {"getFunding", "submitCreate", "createRefund", "getHolding", "submitOptions"}
    /\ b' = [b EXCEPT !.pc = "failed",
                      !.err = IF b.pc \in {"submitCreate", "submitOptions"}
                              THEN "SubmissionError" ELSE "FetchError"]
    /\ UNCHANGED <<now, acct, settled, rd, out, au>>

\* ------------------------------------------------------------------ refund
\* refundCmd.runCommand on the refund transaction that initiate/participate
\* printed: it is submitted as decoded, with no signature added.
RefundCmd ==
    /\ b.pc = "done"
    /\ LET env == [tx |-> TransactionFromXDR(b.refundTx), sigs |-> <<>>]
           res == SubmitTransaction(acct, env, CloseTime)
       IN  /\ acct' = res.accounts
           /\ settled' = Record(env, res)
           /\ out' = [NoOut EXCEPT !.cmd = "refund",
                                   !.err = IF res.ok THEN "" ELSE "SubmissionError"]
    /\ UNCHANGED <<now, b, rd, au>>

\* ------------------------------------------------------------------ redeem
\* redeemCmd.runCommand up to the submission: fetch the holding account,
\* build the merge to the receiver, attach the secret and then the
\* receiver's signature.  The receiver has the holding account's address
\* from the output of initiate/participate.
\* A redeem transaction that pays the balance out instead of merging.
redeemTransaction_Payment(holdingAccount, receiverAddress) ==
    Build(holdingAccount, 0, 0,
          <<OpPayment(holdingAccount.id, receiverAddress, holdingAccount.balance)>>,
          targetNetwork)

\* A redeem transaction built like the refund transaction, with an
\* increment of the fetched sequence number before the build.
redeemTransaction_ExtraIncrement(holdingAccount, receiverAddress) ==
    Build(IncrementSequenceNumber(holdingAccount), 0, 0,
          <<OpAccountMerge(holdingAccount.id, receiverAddress)>>, targetNetwork)

\* The transaction redeemCmd.runCommand builds from the fetched account.
redeemTransaction(holdingAccount, receiverAddress) ==
    Build(holdingAccount, 0, 0, <<OpAccountMerge(holdingAccount.id, receiverAddress)>>,
          targetNetwork)

RedeemBuild(receiver, secret) ==
    /\ b.pc = "done"
    /\ rd.pc = "idle"
    /\ IF acct[E].exists
       THEN /\ rd' = [pc |-> "submit",
                      env |-> [tx |-> redeemTransaction(acct[E], receiver),
                               sigs |-> <<SigHashX(secret), SigEd25519(receiver)>>]]
            /\ out' = out
       ELSE /\ rd' = rd
            /\ out' = [NoOut EXCEPT !.cmd = "redeem", !.err = "FetchError"]
    /\ UNCHANGED <<now, acct, settled, b, au>>

\* redeemCmd.runCommand: the submission and the report.
RedeemSubmit ==
    /\ rd.pc = "submit"
    /\ LET res == SubmitTransaction(acct, rd.env, CloseTime) IN
       /\ acct' = res.accounts
       /\ settled' = Record(rd.env, res)
       /\ out' = [NoOut EXCEPT !.cmd = "redeem",
                               !.err = IF res.ok THEN "" ELSE "SubmissionError"]
    /\ rd' = [pc |-> "idle", env |-> NoEnv]
    /\ UNCHANGED <<now, b, au>>

\* ------------------------------------------------ submissions by anyone
\* A merge of the holding account built outside the tool, with any
\* destination and signatures, once initiate/participate has
\* published the account; until then the holding account's key pair exists
\* only in the memory of the run.
RECURSIVE SeqsUpTo(_, _)
SeqsUpTo(S, n) ==
    IF n = 0 THEN {<<>>}
    ELSE SeqsUpTo(S, n - 1) \cup {Append(q, x) : q \in SeqsUpTo(S, n - 1), x \in S}

\* The signatures an outside party may attach: the holding account's own
\* key, the two counterparties' keys and the preimages, any MaxSigs of them.
SigPool ==
    <<SigEd25519(E), SigEd25519(R), SigEd25519(O), SigHashX("s1"), SigHashX("s2")>>

OutsideSigs ==
    {[i \in DOMAIN q |-> SigPool[q[i]]] :
        q \in {p \in SeqsUpTo(DOMAIN SigPool, MaxSigs) :
                  \A i \in DOMAIN p : i = 1 \/ p[i - 1] < p[i]}}

OutsideTxs ==
    {[source |-> src, seq |-> acct[src].seq + 1, minTime |-> 0, maxTime |-> 0,
      ops |-> <<OpAccountMerge(osrc, dest)>>, network |-> ""] :
        src \in {E, O}, osrc \in {E, NoSource}, dest \in {F, R, O}}

OutsideSubmit(tx, sigs) ==
    /\ b.pc = "done"
    /\ acct[E].exists
    /\ EffectiveSource(tx.ops[1], tx) = E
    /\ LET env == [tx |-> tx, sigs |-> sigs]
           res == SubmitTransaction(acct, env, CloseTime)
       IN  /\ res.included
           /\ acct' = res.accounts
           /\ settled' = Record(env, res)
    /\ UNCHANGED <<now, b, rd, out, au>>

\* ----------------------------------------------------------- auditcontract
AuditStart ==
    [recipientAddress |-> EmptyString, refundTxHash |-> NilBytes,
     secretHash |-> NilBytes, err |-> ""]

\* The loop body without the check for a second secret hash.
AuditSigner_NoDuplicateCheck(signer, st) ==
    IF signer.weight = 0 THEN st
    ELSE CASE signer.type = KeyTypeAccountID ->
                IF st.recipientAddress # EmptyString
                THEN [st EXCEPT !.err = "DuplicateSigner"]
                ELSE [st EXCEPT !.recipientAddress = signer.key,
                                !.err = IF signer.weight # 1 THEN "WeightMismatch" ELSE ""]
           [] signer.type = KeyTypeHashTx ->
                IF st.refundTxHash # NilBytes
                THEN [st EXCEPT !.err = "DuplicateSigner"]
                ELSE IF ~StrkeyDecodeOk("T", signer.key)
                THEN [st EXCEPT !.err = "FaultyEncoding"]
                ELSE [st EXCEPT !.refundTxHash = StrkeyDecode("T", signer.key),
                                !.err = IF signer.weight # 2 THEN "WeightMismatch" ELSE ""]
           [] signer.type = KeyTypeHashX ->
                IF ~StrkeyDecodeOk("X", signer.key)
                THEN [st EXCEPT !.err = "FaultyEncoding"]
                ELSE [st EXCEPT !.secretHash = StrkeyDecode("X", signer.key),
                                !.err = IF signer.weight # 1 THEN "WeightMismatch" ELSE ""]
           [] OTHER -> [st EXCEPT !.err = "UnknownSignerType"]

\* One signer of the loop over holdingAccount.Signers.
AuditSigner(signer, st) ==
    IF signer.weight = 0 THEN st
    ELSE CASE signer.type = KeyTypeAccountID ->
                IF st.recipientAddress # EmptyString
                THEN [st EXCEPT !.err = "DuplicateSigner"]
                ELSE [st EXCEPT !.recipientAddress = signer.key,
                                !.err = IF signer.weight # 1 THEN "WeightMismatch" ELSE ""]
           [] signer.type = KeyTypeHashTx ->
                IF st.refundTxHash # NilBytes
                THEN [st EXCEPT !.err = "DuplicateSigner"]
                ELSE IF ~StrkeyDecodeOk("T", signer.key)
                THEN [st EXCEPT !.err = "FaultyEncoding"]
                ELSE [st EXCEPT !.refundTxHash = StrkeyDecode("T", signer.key),
                                !.err = IF signer.weight # 2 THEN "WeightMismatch" ELSE ""]
           [] signer.type = KeyTypeHashX ->
                IF st.secretHash # NilBytes
                THEN [st EXCEPT !.err = "DuplicateSigner"]
                ELSE IF ~StrkeyDecodeOk("X", signer.key)
                THEN [st EXCEPT !.err = "FaultyEncoding"]
                ELSE [st EXCEPT !.secretHash = StrkeyDecode("X", signer.key),
                                !.err = IF signer.weight # 1 THEN "WeightMismatch" ELSE ""]
           [] OTHER -> [st EXCEPT !.err = "UnknownSignerType"]

\* The loop: it returns at the first error.
RECURSIVE AuditSigners(_, _)
AuditSigners(signers, st) ==
    IF signers = <<>> \/ st.err # "" THEN st
    ELSE AuditSigners(Tail(signers), AuditSigner(Head(signers), st))

AuditError(claimed, kind) == [NoOut EXCEPT !.cmd = "auditcontract", !.claimed = claimed, !.err = kind]

\* The audit without the comparison of the two hashes.
Audit_NoHashCompare(holdingAccount, claimed, holdingAccountAdress) ==
    LET st == AuditSigners(HorizonSigners(holdingAccount), AuditStart)
        refundTx == [claimed EXCEPT !.network = targetNetwork]
    IN
    IF ~holdingAccount.exists THEN AuditError(claimed, "FetchError")
    ELSE IF holdingAccount.high # 2 \/ holdingAccount.med # 2 \/ holdingAccount.low # 2
    THEN AuditError(claimed, "ThresholdMismatch")
    ELSE IF st.err # "" THEN AuditError(claimed, st.err)
    ELSE IF st.refundTxHash = NilBytes \/ st.secretHash = NilBytes
            \/ st.recipientAddress = EmptyString
    THEN AuditError(claimed, "MissingSigner")
    ELSE IF Len(refundTx.ops) # 1
    THEN AuditError(claimed, "MalformedRefundTransaction")
    ELSE IF OpType(refundTx.ops[1]) # "account_merge"
    THEN AuditError(claimed, "MalformedRefundTransaction")
    ELSE IF OpSource(refundTx.ops[1]) = NoSource
    THEN AuditError(claimed, "Panic")
    ELSE IF OpSource(refundTx.ops[1]) # holdingAccountAdress
    THEN AuditError(claimed, "MalformedRefundTransaction")
    ELSE [cmd |-> "auditcontract", err |-> "", claimed |-> claimed,
          recipient |-> st.recipientAddress, refundAddress |-> refundTx.ops[1][3],
          secretHash |-> st.secretHash, lockTime |-> refundTx.minTime,
          balance |-> holdingAccount.balance, secret |-> NilBytes]

\* auditContractCmd.runCommand on the fetched account and the claimed refund
\* transaction: the error it returns, or the parameters it prints.
Audit(holdingAccount, claimed, holdingAccountAdress) ==
    LET st == AuditSigners(HorizonSigners(holdingAccount), AuditStart)
        refundTx == [claimed EXCEPT !.network = targetNetwork]
    IN
    IF ~holdingAccount.exists THEN AuditError(claimed, "FetchError")
    ELSE IF holdingAccount.high # 2 \/ holdingAccount.med # 2 \/ holdingAccount.low # 2
    THEN AuditError(claimed, "ThresholdMismatch")
    ELSE IF st.err # "" THEN AuditError(claimed, st.err)
    ELSE IF st.refundTxHash = NilBytes \/ st.secretHash = NilBytes
            \/ st.recipientAddress = EmptyString
    THEN AuditError(claimed, "MissingSigner")
    ELSE IF st.refundTxHash # TxHash(refundTx)
    THEN AuditError(claimed, "RefundHashMismatch")
    ELSE IF Len(refundTx.ops) # 1
    THEN AuditError(claimed, "MalformedRefundTransaction")
    ELSE IF OpType(refundTx.ops[1]) # "account_merge"
    THEN AuditError(claimed, "MalformedRefundTransaction")
    ELSE IF OpSource(refundTx.ops[1]) = NoSource
    THEN AuditError(claimed, "Panic")
    ELSE IF OpSource(refundTx.ops[1]) # holdingAccountAdress
    THEN AuditError(claimed, "MalformedRefundTransaction")
    ELSE [cmd |-> "auditcontract", err |-> "", claimed |-> claimed,
          recipient |-> st.recipientAddress, refundAddress |-> refundTx.ops[1][3],
          secretHash |-> st.secretHash, lockTime |-> refundTx.minTime,
          balance |-> holdingAccount.balance, secret |-> NilBytes]

NoAudit == [pc |-> "idle", refundTx |-> NoTx, holdingAccountAdress |-> EmptyString]

\* run(): the auditcontract arguments decoded into the command.
AuditParse(holding, refundTx) ==
    /\ au.pc = "idle"
    /\ au' = [pc |-> "ready", refundTx |-> TransactionFromXDR(refundTx),
              holdingAccountAdress |-> holding]
    /\ UNCHANGED <<now, acct, settled, b, rd, out>>

\* An audit that also submits the claimed refund transaction.
AuditCmd_Submits ==
    /\ au.pc = "ready"
    /\ out' = Audit(acct[au.holdingAccountAdress], au.refundTx, au.holdingAccountAdress)
    /\ au' = NoAudit
    /\ acct' = SubmitTransaction(acct, [tx |-> au.refundTx, sigs |-> <<>>], CloseTime).accounts
    /\ UNCHANGED <<now, settled, b, rd>>

\* auditContractCmd.runCommand: the fetch of the account and the report.
AuditCmd ==
    /\ au.pc = "ready"
    /\ out' = Audit(acct[au.holdingAccountAdress], au.refundTx, au.holdingAccountAdress)
    /\ au' = NoAudit
    /\ UNCHANGED <<now, acct, settled, b, rd>>

\* ----------------------------------------------------------- extractsecret
\* The effects the ledger's history holds for account a after one applied
\* operation, oldest first.
OpEffects(op, tx, a) ==
    LET src == EffectiveSource(op, tx) IN
    CASE OpType(op) = "create_account" ->
           (IF src = a THEN <<"account_debited">> ELSE <<>>)
           \o (IF op[3] = a THEN <<"account_created">> ELSE <<>>)
      [] OpType(op) = "set_options_signer" ->
           IF src = a THEN <<"signer_created">> ELSE <<>>
      [] OpType(op) = "set_options_weights" ->
           IF src = a THEN <<"signer_updated", "account_thresholds_updated">> ELSE <<>>
      [] OpType(op) = "account_merge" ->
           (IF src = a THEN <<"account_debited">> ELSE <<>>)
           \o (IF op[3] = a THEN <<"account_credited">> ELSE <<>>)
           \o (IF src = a THEN <<"account_removed">> ELSE <<>>)
      [] OTHER ->
           (IF src = a THEN <<"account_debited">> ELSE <<>>)
           \o (IF op[3] = a THEN <<"account_credited">> ELSE <<>>)

\* The effects of the operations ops[k..] of settled transaction number i.
RECURSIVE TxEffects(_, _, _, _)
TxEffects(history, i, k, a) ==
    IF k > Len(history[i].env.tx.ops) THEN <<>>
    ELSE [n \in DOMAIN OpEffects(history[i].env.tx.ops[k], history[i].env.tx, a) |->
              [type |-> OpEffects(history[i].env.tx.ops[k], history[i].env.tx, a)[n],
               tx |-> i]]
         \o TxEffects(history, i, k + 1, a)

\* The effects of account a over the settled transactions i.., oldest first;
\* a transaction whose operations failed leaves none.
RECURSIVE AccountEffects(_, _, _)
AccountEffects(history, i, a) ==
    IF i > Len(history) THEN <<>>
    ELSE (IF history[i].ok THEN TxEffects(history, i, 1, a) ELSE <<>>)
         \o AccountEffects(history, i + 1, a)

\* client.Effects with ForAccount and Limit: the first page, oldest first.
EffectsPage(history, a, limit) ==
    LET all == AccountEffects(history, 1, a) IN
    SubSeq(all, 1, IF Len(all) < limit THEN Len(all) ELSE limit)

\* A debiting effect of the page followed to its transaction.
IsDebit(e) == e.type = "account_debited"

\* stellar.GetAccountDebitediTransactions: one transaction per debiting
\* effect of the page, in the order of the effects.
GetAccountDebitediTransactions(history, accountAddress) ==
    LET debits == SelectSeq(EffectsPage(history, accountAddress, EffectsLimit), IsDebit)
    IN  [n \in DOMAIN debits |-> history[debits[n].tx].env]

\* The bytes of a signature as the history reports it: a preimage is its
\* own signature, a key's signature is 64 bytes particular to the key.
SigBytes(sig) == IF sig[1] = "hashx" THEN sig[2] ELSE sig[2][2]
SigLen(sig) == IF sig[1] = "hashx" THEN secretSize ELSE XDRMaxSize

\* fmt.Sprintf("%x", ...) of a digest.
HexEncode(bytes) == <<"hex", bytes>>

\* The scan looking at the first signature only.
FindSecret_FirstOnly(signatures, secretHash) ==
    IF signatures = <<>> THEN NilBytes
    ELSE IF HexEncode(sha256Hash(SigBytes(Head(signatures)))) = secretHash
    THEN <<"bytes", SigBytes(Head(signatures))>>
    ELSE NilBytes

\* The scan taking the first signature short enough, its digest unchecked.
RECURSIVE FindSecret_AnySignature(_, _)
FindSecret_AnySignature(signatures, secretHash) ==
    IF signatures = <<>> THEN NilBytes
    ELSE IF SigLen(Head(signatures)) > XDRMaxSize
    THEN FindSecret_AnySignature(Tail(signatures), secretHash)
    ELSE <<"bytes", SigBytes(Head(signatures))>>

\* The loop over the signatures of the spending transaction: the first one
\* whose digest is the wanted hash, NilBytes if there is none.
RECURSIVE FindSecret(_, _)
FindSecret(signatures, secretHash) ==
    IF signatures = <<>> THEN NilBytes
    ELSE IF SigLen(Head(signatures)) > XDRMaxSize
    THEN FindSecret(Tail(signatures), secretHash)
    ELSE IF HexEncode(sha256Hash(SigBytes(Head(signatures)))) = secretHash
    THEN <<"bytes", SigBytes(Head(signatures))>>
    ELSE FindSecret(Tail(signatures), secretHash)

ExtractError(kind) == [NoOut EXCEPT !.cmd = "extractsecret", !.err = kind]

\* extractSecretCmd.runCommand on the transactions that debited the account.
ExtractSecret(transactions, secretHash) ==
    IF Len(transactions) = 0 THEN ExtractError("NotYetRedeemed")
    ELSE IF Len(transactions) # 1 THEN ExtractError("AmbiguousSpend")
    ELSE IF FindSecret(transactions[1].sigs, secretHash) = NilBytes
    THEN ExtractError("PreimageNotFound")
    ELSE [NoOut EXCEPT !.cmd = "extractsecret",
                       !.secret = FindSecret(transactions[1].sigs, secretHash)]

ExtractSecretCmd(holdingAccountAdress, secretHash) ==
    /\ out' = ExtractSecret(GetAccountDebitediTransactions(settled, holdingAccountAdress),
                            secretHash)
    /\ UNCHANGED <<now, acct, settled, b, rd, au>>

\* ------------------------------------------------------------------- clock
Tick ==
    /\ now < MaxTime
    /\ now' = now + 1
    /\ UNCHANGED <<acct, settled, b, rd, out, au>>

InitAccounts ==
    [a \in Addresses |->
        IF a = E THEN NoAccount(E) ELSE NewAccount(a, FundingBalance, 0)]

Init ==
    /\ now = 0
    /\ acct = InitAccounts
    /\ settled = <<>>
    /\ b = IdleBuilder
    /\ rd = [pc |-> "idle", env |-> NoEnv]
    /\ au = NoAudit
    /\ out = NoOut

Next ==
    \/ \E cp \in CounterParties, h \in SecretHashes, lt \in 0..MaxTime, amt \in 1..MaxAmount :
          BuilderStart(cp, h, lt, amt)
    \/ GetFundingAccount
    \/ SubmitCreate
    \/ CreateRefund
    \/ GetHoldingAccount
    \/ SubmitOptions
    \/ BuilderClientError
    \/ RefundCmd
    \/ \E receiver \in CounterParties, secret \in Secrets : RedeemBuild(receiver, secret)
    \/ RedeemSubmit
    \/ \E tx \in OutsideTxs, sigs \in OutsideSigs : OutsideSubmit(tx, sigs)
    \/ b.pc = "done" /\ AuditParse(E, b.refundTx)
    \/ AuditCmd
    \/ Tick

Spec == Init /\ [][Next]_vars

\* ------------------------------------------- auditcontract on any account
\* The audit reads whatever account and refund transaction it is pointed
\* at.  SpecAudit starts it on every input of two families: (A) accounts with
\* any thresholds, any master weight and any list of up to MaxExtraSigners
\* signers, committing to GoodRefund or to a variant of it, against
\* GoodRefund as the claimed transaction; (B) accounts that carry
\* exactly the three expected signers, committing to any transaction of
\* CommittedTxs, against every claimed transaction.
AuditOps ==
    {<<OpAccountMerge(E, F)>>, <<OpAccountMerge(E, O)>>, <<OpAccountMerge(O, F)>>,
     <<OpAccountMerge(NoSource, F)>>, <<OpPayment(E, F, 1)>>,
     <<OpAccountMerge(E, F), OpPayment(E, F, 1)>>, <<>>}

ClaimedTxs ==
    {[source |-> src, seq |-> 2, minTime |-> mt, maxTime |-> 0, ops |-> ops,
      network |-> ""] : src \in {E, O}, mt \in {0, 1}, ops \in AuditOps}

CommittedTxs == {c \in ClaimedTxs : c.minTime = 1}

GoodRefund ==
    [source |-> E, seq |-> 2, minTime |-> 1, maxTime |-> 0,
     ops |-> <<OpAccountMerge(E, F)>>, network |-> ""]

\* The key a holding account carries when it commits to transaction c.
CommitmentTo(c) == CreateHashTxAddress(TxHash([c EXCEPT !.network = targetNetwork]))

\* The weights tried on an added signer and on the master key: the two the
\* protocol uses, and 0 for a disabled master key.
SignerWeights == {1, 2}
MasterWeights == {0, 1, 2}

SignerPool ==
    {Signer(KeyTypeAccountID, a, w) : a \in {R, O}, w \in SignerWeights}
    \cup {Signer(KeyTypeHashX, CreateHashxAddress(h), w) : h \in SecretHashes, w \in SignerWeights}
    \cup {Signer(KeyTypeHashTx, CommitmentTo(c), w) :
            c \in {GoodRefund, [GoodRefund EXCEPT !.minTime = 0]}, w \in SignerWeights}
    \cup {Signer(KeyTypeOther, StrkeyEncode("?", "x"), 1)}

\* The lists of up to n signers of the pool, no key twice.
RECURSIVE SignerLists(_)
SignerLists(n) ==
    IF n = 0 THEN {<<>>}
    ELSE SignerLists(n - 1) \cup
         UNION {{Append(l, e) : e \in {x \in SignerPool :
                                          \A i \in DOMAIN l : l[i].key # x.key}} :
                l \in SignerLists(n - 1)}

ThresholdTriples == {<<2, 2, 2>>, <<0, 2, 2>>, <<2, 1, 2>>, <<2, 2, 3>>, <<0, 0, 0>>}

AuditAccount(master, thr, signers) ==
    [id |-> E, exists |-> TRUE, seq |-> 1, balance |-> 1, master |-> master,
     low |-> thr[1], med |-> thr[2], high |-> thr[3], signers |-> signers]

Permutations3(x, y, z) ==
    {<<x, y, z>>, <<x, z, y>>, <<y, x, z>>, <<y, z, x>>, <<z, x, y>>, <<z, y, x>>}

AuditInputsA ==
    {<<AuditAccount(m, thr, l), c>> :
        m \in MasterWeights, thr \in ThresholdTriples, l \in SignerLists(MaxExtraSigners),
        c \in {GoodRefund}}

AuditInputsB ==
    UNION {{<<AuditAccount(0, <<2, 2, 2>>, l), c>> :
              l \in Permutations3(Signer(KeyTypeAccountID, cp, 1),
                                  Signer(KeyTypeHashX, CreateHashxAddress(h), 1),
                                  Signer(KeyTypeHashTx, CommitmentTo(k), 2)),
              c \in ClaimedTxs} :
           cp \in CounterParties, h \in SecretHashes, k \in CommittedTxs}

InitAudit ==
    /\ now = 0
    /\ settled = <<>>
    /\ b = IdleBuilder
    /\ rd = [pc |-> "idle", env |-> NoEnv]
    /\ out = NoOut
    /\ \E in \in AuditInputsA \cup AuditInputsB :
          /\ acct = [InitAccounts EXCEPT ![E] = in[1]]
          /\ au = [pc |-> "ready", refundTx |-> in[2], holdingAccountAdress |-> E]

NextAudit == AuditCmd

SpecAudit == InitAudit /\ [][NextAudit]_vars

\* ------------------------------------- initiate / participate lock times
\* timings.LockTime, in ticks: 48 hours.
LockTime == 48 * 3600 * TicksPerSec

\* An initiate that locks for half the LockTime, like participate.
initiateLocktime_Half(t) == t + LockTime \div 2

\* initiateCmd.runCommand: locktime := time.Now().Add(timings.LockTime)
initiateLocktime(t) == t + LockTime

\* A participate that locks for the whole LockTime.
participateLocktime_Full(t) == t + LockTime

\* participateCmd.runCommand: locktime := time.Now().Add(timings.LockTime / 2)
participateLocktime(t) == t + LockTime \div 2

\* initiateCmd.runCommand up to the call of createAtomicSwapHoldingAccount:
\* a fresh secret, its hash, and the lock time from the clock.
InitiateStart(cp, secret, amt) ==
    /\ b.pc = "idle"
    /\ b' = [IdleBuilder EXCEPT !.pc = "getFunding", !.cp = cp,
                                !.secretHash = sha256Hash(secret),
                                !.locktime = initiateLocktime(now), !.amount = amt]
    /\ UNCHANGED <<now, acct, settled, rd, out, au>>

\* participateCmd.runCommand up to the same call: the given hash.
ParticipateStart(cp, h, amt) ==
    /\ b.pc = "idle"
    /\ b' = [IdleBuilder EXCEPT !.pc = "getFunding", !.cp = cp, !.secretHash = h,
                                !.locktime = participateLocktime(now), !.amount = amt]
    /\ UNCHANGED <<now, acct, settled, rd, out, au>>

NextLock ==
    \/ \E cp \in CounterParties, s \in Secrets, amt \in 1..MaxAmount : InitiateStart(cp, s, amt)
    \/ \E cp \in CounterParties, h \in SecretHashes, amt \in 1..MaxAmount :
          ParticipateStart(cp, h, amt)
    \/ GetFundingAccount
    \/ SubmitCreate
    \/ CreateRefund
    \/ GetHoldingAccount
    \/ SubmitOptions
    \/ BuilderClientError
    \/ Tick

SpecLock == Init /\ [][NextLock]_vars

\* ------------------------------------------------- the two legs of a swap
\* SpecSwap runs initiate to its end, lets time pass, and then runs
\* participate for the same secret hash.  When initiate has printed its
\* contract the state turns to the participant's leg: out keeps what the
\* initiator printed (the secret hash and the refund transaction with its
\* time bound), the run is idle again, and the ledger is the participant's,
\* with its own funding account and no holding account yet.
InitiateDone ==
    /\ b.pc = "done"
    /\ out.cmd = ""
    /\ out' = [NoOut EXCEPT !.cmd = "initiate",
                            !.secretHash = b.printed.secretHash,
                            !.claimed = b.printed.refundTransaction,
                            !.lockTime = b.printed.refundTransaction.minTime]
    /\ b' = IdleBuilder
    /\ acct' = InitAccounts
    /\ settled' = <<>>
    /\ UNCHANGED <<now, rd, au>>

\* The delays between the initiator's contract and the participant's run:
\* around half the LockTime, to a tick and to a second.
Delays ==
    {LockTime \div 2 - TicksPerSec, LockTime \div 2 - 1, LockTime \div 2,
     LockTime \div 2 + 1}

\* Time passes before participate is run.
Wait(d) ==
    /\ out.cmd = "initiate"
    /\ b.pc = "idle"
    /\ now <= MaxTime
    /\ now' = now + d
    /\ UNCHANGED <<acct, settled, b, rd, out, au>>

\* The initiator's run: initiate, once.
SwapInitiate(cp, secret, amt) ==
    /\ out.cmd = ""
    /\ InitiateStart(cp, secret, amt)

\* The participant's run: participate with the secret hash the initiator
\* printed.
SwapParticipate(cp, amt) ==
    /\ out.cmd = "initiate"
    /\ ParticipateStart(cp, out.secretHash, amt)

NextSwap ==
    \/ \E cp \in CounterParties, s \in Secrets, amt \in 1..MaxAmount : SwapInitiate(cp, s, amt)
    \/ \E cp \in CounterParties, amt \in 1..MaxAmount : SwapParticipate(cp, amt)
    \/ GetFundingAccount
    \/ SubmitCreate
    \/ CreateRefund
    \/ GetHoldingAccount
    \/ SubmitOptions
    \/ BuilderClientError
    \/ InitiateDone
    \/ \E d \in Delays : Wait(d)
    \/ Tick

SpecSwap == Init /\ [][NextSwap]_vars

\* ------------------------------------------ extractsecret on any history
\* SpecExtract starts extractsecret (and auditcontract) on the ledger left by
\* a finished run of createAtomicSwapHoldingAccount (counterparty R, secret
\* "s1", locktime 0), up to MaxIncoming payments into the holding account by
\* another party, and one of the ways the holding account can then be spent.
\* Every history is replayed on the ledger from ExtractAccounts.
ExtractAccounts == [InitAccounts EXCEPT ![O].balance = FundingBalance + MaxIncoming]

HistHolding == NewAccount(E, 1, 0)

HistRefundTx == createRefundTransaction(HistHolding, F, 0)

HistSetup ==
    <<[tx |-> createHoldingAccountTransaction(E, 1, ExtractAccounts[F], targetNetwork),
       sigs |-> <<SigEd25519(F)>>],
      [tx |-> createHoldingAccountSigningTransaction(HistHolding, R, sha256Hash("s1"),
                                                     TxHash(HistRefundTx), targetNetwork),
       sigs |-> <<SigEd25519(E)>>]>>

HistIncoming(n) ==
    [k \in 1..n |->
        [tx |-> Build([id |-> O, seq |-> k - 1], 0, 0, <<OpPayment(O, E, 1)>>, targetNetwork),
         sigs |-> <<SigEd25519(O)>>]]

\* The holding account after the setup, as a redeem or payment fetches it.
HistConfigured(seq) == [HistHolding EXCEPT !.seq = seq]

HistSpends ==
    {<<>>,
     <<[tx |-> redeemTransaction(HistConfigured(1), R),
        sigs |-> <<SigHashX("s1"), SigEd25519(R)>>]>>,
     <<[tx |-> redeemTransaction(HistConfigured(1), R),
        sigs |-> <<SigEd25519(R), SigHashX("s1")>>]>>,
     <<[tx |-> TransactionFromXDR(HistRefundTx), sigs |-> <<>>]>>,
     <<[tx |-> Build(HistConfigured(1), 0, 0, <<OpPayment(E, R, 1)>>, targetNetwork),
        sigs |-> <<SigHashX("s1"), SigEd25519(R)>>],
       [tx |-> redeemTransaction(HistConfigured(2), R),
        sigs |-> <<SigHashX("s1"), SigEd25519(R)>>]>>}

Histories == {HistSetup \o HistIncoming(n) \o sp : n \in 0..MaxIncoming, sp \in HistSpends}

\* The ledger after the envelopes envs[i..], each submitted at time 0:
\* <<every one was applied successfully, accounts>>.
RECURSIVE Replay(_, _, _)
Replay(accounts, envs, i) ==
    IF i > Len(envs) THEN <<TRUE, accounts>>
    ELSE LET res == SubmitTransaction(accounts, envs[i], 0) IN
         IF res.ok THEN Replay(res.accounts, envs, i + 1) ELSE <<FALSE, accounts>>

ExtractHashes == {HexEncode(h) : h \in SecretHashes}

InitExtract ==
    /\ now = 0
    /\ rd = [pc |-> "idle", env |-> NoEnv]
    /\ au = NoAudit
    /\ out = NoOut
    /\ b = [IdleBuilder EXCEPT !.pc = "done", !.amount = 1, !.env = HistSetup[2],
                               !.refundTx = HistRefundTx,
                               !.printed = [secretHash |-> sha256Hash("s1"),
                                            holdingAccountAddress |-> E,
                                            refundTransaction |-> TransactionFromXDR(HistRefundTx)]]
    /\ \E h \in Histories :
          /\ Replay(ExtractAccounts, h, 1)[1]
          /\ acct = Replay(ExtractAccounts, h, 1)[2]
          /\ settled = [i \in DOMAIN h |-> [env |-> h[i], ok |-> TRUE]]

NextExtract ==
    \/ \E h \in ExtractHashes : ExtractSecretCmd(E, h)
    \/ AuditParse(E, b.refundTx)
    \/ AuditCmd

SpecExtract == InitExtract /\ [][NextExtract]_vars

\* ------------------------------------------- failures of the submit call
\* client.SubmitTransactionXDR fails either with a *horizonclient.Error (the
\* ledger's answer to a request it rejected) or with another error (the
\* request or its answer was lost, the answer could not be decoded).
HorizonError == "*horizonclient.Error"
OtherError == "error"
ClientErrors == {HorizonError, OtherError}

\* stellar.SubmitTransaction on a failed call: err.(*horizonclient.Error) is
\* asserted without a check, so any other error aborts the process in the
\* assertion; a *horizonclient.Error becomes the error that is returned.
SubmitTransactionError(err) ==
    IF err = HorizonError THEN "SubmissionError" ELSE "Panic"

\* The submit call of createHoldingAccount or of
\* setHoldingAccountSigningOptions fails in the client: nothing reaches the
\* ledger.
BuilderSubmitFails(err) ==
    /\ b.pc \in {"submitCreate", "submitOptions"}
    /\ b' = [b EXCEPT !.pc = IF SubmitTransactionError(err) = "Panic"
                             THEN "panicked" ELSE "failed",
                      !.err = SubmitTransactionError(err)]
    /\ UNCHANGED <<now, acct, settled, rd, out, au>>

\* The submit call of redeemCmd.runCommand fails in the client.
RedeemSubmitFails(err) ==
    /\ rd.pc = "submit"
    /\ out' = [NoOut EXCEPT !.cmd = "redeem", !.err = SubmitTransactionError(err)]
    /\ rd' = [pc |-> "idle", env |-> NoEnv]
    /\ UNCHANGED <<now, acct, settled, b, au>>

\* The submit call of refundCmd.runCommand fails in the client.
RefundSubmitFails(err) ==
    /\ b.pc = "done"
    /\ out' = [NoOut EXCEPT !.cmd = "refund", !.err = SubmitTransactionError(err)]
    /\ UNCHANGED <<now, acct, settled, b, rd, au>>

\* Spec takes every failing call to return its error.  SpecSubmit runs the
\* commands that submit (initiate/participate, redeem, refund) with both
\* kinds of failure of the submit call.
NextSubmit ==
    \/ \E cp \in CounterParties, h \in SecretHashes, lt \in 0..MaxTime, amt \in 1..MaxAmount :
          BuilderStart(cp, h, lt, amt)
    \/ GetFundingAccount
    \/ SubmitCreate
    \/ CreateRefund
    \/ GetHoldingAccount
    \/ SubmitOptions
    \/ RefundCmd
    \/ \E receiver \in CounterParties, secret \in Secrets : RedeemBuild(receiver, secret)
    \/ RedeemSubmit
    \/ \E err \in ClientErrors : BuilderSubmitFails(err)
    \/ \E err \in ClientErrors : RedeemSubmitFails(err)
    \/ \E err \in ClientErrors : RefundSubmitFails(err)
    \/ Tick

SpecSubmit == Init /\ [][NextSubmit]_vars

\* ---------------------------------- other spends of the holding account
\* The counterparty, holding the secret, can authorise any transaction of
\* the configured holding account, not only the merge that redeem builds.
\* RecipientPayment is a payment of one unit out of the holding account to
\* the counterparty, built on the account's current sequence number.
RecipientPayment(secret) ==
    /\ b.pc = "done"
    /\ acct[E].exists
    /\ LET env == [tx |-> TransactionFromXDR(Build(acct[E], 0, 0, <<OpPayment(E, b.cp, 1)>>,
                                                  targetNetwork)),
                   sigs |-> <<SigHashX(secret), SigEd25519(b.cp)>>]
           res == SubmitTransaction(acct, env, CloseTime)
       IN  /\ res.ok
           /\ acct' = res.accounts
           /\ settled' = Record(env, res)
    /\ UNCHANGED <<now, b, rd, out, au>>

\* SpecSpend: a run of initiate/participate, then redeem, refund and the
\* counterparty's payments in any order.
NextSpend ==
    \/ \E cp \in CounterParties, h \in SecretHashes, lt \in 0..MaxTime, amt \in 1..MaxAmount :
          BuilderStart(cp, h, lt, amt)
    \/ GetFundingAccount
    \/ SubmitCreate
    \/ CreateRefund
    \/ GetHoldingAccount
    \/ SubmitOptions
    \/ RefundCmd
    \/ \E receiver \in CounterParties, secret \in Secrets : RedeemBuild(receiver, secret)
    \/ RedeemSubmit
    \/ \E secret \in Secrets : RecipientPayment(secret)
    \/ Tick

SpecSpend == Init /\ [][NextSpend]_vars

\* ============================================================== properties
\* The holding account as createAtomicSwapHoldingAccount means to leave it.
FullyConfigured(a) ==
    /\ a.low = 2 /\ a.med = 2 /\ a.high = 2
    /\ a.master = 0
    /\ Len(a.signers) = 3
    /\ Range(a.signers) =
          {Signer(KeyTypeAccountID, b.cp, 1),
           Signer(KeyTypeHashX, CreateHashxAddress(b.secretHash), 1),
           Signer(KeyTypeHashTx, CreateHashTxAddress(TxHash(b.refundTx)), 2)}

\* The holding account as the create-account operation leaves it.
Unconfigured(a) ==
    /\ a.low = 0 /\ a.med = 0 /\ a.high = 0
    /\ a.master = 1
    /\ a.signers = <<>>

\* The settled transactions that act on the holding account.
TouchesHolding(tx) ==
    tx.source = E \/ \E k \in DOMAIN tx.ops : EffectiveSource(tx.ops[k], tx) = E

\* The settled transactions that spent the holding account: all but the
\* funding and the signing-options transaction of the run.
Spends == {i \in DOMAIN settled : i > 2 /\ TouchesHolding(settled[i].env.tx)}

IsRefund(env) == TransactionFromXDR(env.tx) = TransactionFromXDR(b.refundTx)

RefundSettled == \E i \in Spends : IsRefund(settled[i].env)

\* ---- C1
\* C1: once createAtomicSwapHoldingAccount has returned without error, the
\* holding account (as long as it exists) has thresholds 2/2/2, master weight
\* 0 and exactly the three signers counterparty (1), secret hash (1) and
\* refund transaction hash (2); and it did exist when the run returned.
C1_ConfiguredAfterBuild ==
    b.pc = "done" =>
        /\ acct[E].exists => FullyConfigured(acct[E])
        /\ acct[E].exists \/ Spends # {}

C1_Witness == b.pc = "done" /\ acct[E].exists /\ b.cp = O

\* ---- C2
\* C2: in every reachable state the holding account, if it exists, is
\* either as created or fully configured; no state shows only some of the
\* four signing options applied.
C2_ConfigurationAtomic ==
    acct[E].exists => Unconfigured(acct[E]) \/ FullyConfigured(acct[E])

C2_Witness == acct[E].exists /\ FullyConfigured(acct[E]) /\ Len(settled) = 2

\* ---- C3
\* C3: every transaction the ledger accepted on the configured holding
\* account either carries the designated recipient's signature together with
\* a preimage of the secret hash, or is the refund transaction whose hash
\* was committed.
AuthorizedByRecipientAndSecret(env) ==
    /\ SigEd25519(b.cp) \in Range(env.sigs)
    /\ \E s \in Secrets : SigHashX(s) \in Range(env.sigs) /\ sha256Hash(s) = b.secretHash

C3_OnlyTwoSpendingPaths ==
    \A i \in Spends :
        AuthorizedByRecipientAndSecret(settled[i].env) \/ IsRefund(settled[i].env)

C3_Witness ==
    \E i \in Spends :
        /\ AuthorizedByRecipientAndSecret(settled[i].env)
        /\ settled[i].env.tx.source = O

\* ---- C4
\* C4: at most one transaction ever spends the holding account, whatever the
\* order of redeem and refund submissions; the account is gone exactly when
\* one did.
C4_RedeemRefundExclusive ==
    /\ Cardinality(Spends) <= 1
    /\ b.pc = "done" => (acct[E].exists <=> Spends = {})

C4_Witness ==
    /\ RefundSettled
    /\ rd.pc = "submit"
    /\ AuthorizedByRecipientAndSecret(rd.env)

\* ---- C5
\* C5 as stated: the refund transaction is never applied at a time earlier
\* than the locktime given to createAtomicSwapHoldingAccount.
C5_NeverBeforeLocktime ==
    [][(RefundSettled' /\ ~RefundSettled) => now >= b.locktime]_vars

\* C5 amended: the refund transaction's lower time bound is the locktime
\* in whole seconds, it has no upper bound, it is never applied at a ledger
\* close time before that second, and a refund submitted before that second
\* changes nothing on the ledger.
C5_NeverBeforeLocktimeSeconds ==
    /\ [](b.pc = "done" =>
            b.refundTx.minTime = Unix(b.locktime) /\ b.refundTx.maxTime = 0)
    /\ [][(RefundSettled' /\ ~RefundSettled) => CloseTime >= Unix(b.locktime)]_vars
    /\ [][(RefundCmd /\ CloseTime < Unix(b.locktime)) =>
            (acct' = acct /\ settled' = settled /\ out'.err = "SubmissionError")]_vars

C5_Witness == RefundSettled /\ b.locktime > 0 /\ now = b.locktime

Audited == out.cmd = "auditcontract"

Roles == {KeyTypeAccountID, KeyTypeHashTx, KeyTypeHashX}

RequiredWeight(type) == IF type = KeyTypeHashTx THEN 2 ELSE 1

\* The reported signers of non-zero weight, and those of one type.
LiveSigners(a) == {x \in Range(HorizonSigners(a)) : x.weight # 0}
OfType(a, type) == {x \in LiveSigners(a) : x.type = type}

\* An account that breaks one of the conditions on thresholds and signers.
BadEscrow(a) ==
    \/ a.low # 2 \/ a.med # 2 \/ a.high # 2
    \/ \E t \in Roles : Cardinality(OfType(a, t)) >= 2
    \/ \E x \in LiveSigners(a) : x.type \in Roles /\ x.weight # RequiredWeight(x.type)
    \/ \E t \in Roles : OfType(a, t) = {}
    \/ \E x \in LiveSigners(a) : x.type \notin Roles

ReportsNothing ==
    /\ out.recipient = EmptyString /\ out.refundAddress = EmptyString
    /\ out.secretHash = NilBytes /\ out.lockTime = 0 /\ out.balance = 0

\* The account commits to the claimed transaction.
CommitmentMatches(a, claimed) ==
    \E x \in LiveSigners(a) : x.type = KeyTypeHashTx /\ x.key = CommitmentTo(claimed)

\* One operation, an account merge, from the audited account.
WellFormedRefund(tx) ==
    /\ Len(tx.ops) = 1
    /\ OpType(tx.ops[1]) = "account_merge"
    /\ EffectiveSource(tx.ops[1], tx) = E

\* ---- C7
\* C7: on an account with a threshold other than 2, two signers of one
\* role, a role of the wrong weight, a missing role or a signer of another
\* type, the audit returns an error and reports no parameter.
C7_AuditRejectsBadEscrow ==
    (Audited /\ BadEscrow(acct[E])) => (out.err # "" /\ ReportsNothing)

C7_Witness ==
    /\ Audited /\ out.err = "DuplicateSigner"
    /\ acct[E].low = 2 /\ acct[E].med = 2 /\ acct[E].high = 2
    /\ Cardinality(OfType(acct[E], KeyTypeHashX)) = 2

\* ---- C8
\* C8: the audit never succeeds on an account whose master key has a
\* non-zero weight.
C8_AuditRejectsLiveMaster ==
    (Audited /\ acct[E].master # 0) => out.err # ""

\* ---- C9
\* C9 as stated: the audit succeeds if and only if the hash of the claimed
\* refund transaction equals the committed one.
C9_SucceedsIffHashMatches ==
    Audited => (out.err = "" <=> CommitmentMatches(acct[E], out.claimed))

\* C9 amended: the audit succeeds only if the hashes are equal; on an
\* account that passes the threshold and signer checks, a claimed
\* transaction of another hash fails with RefundHashMismatch, and one of the
\* committed hash succeeds when it is a single account merge whose own
\* source is the audited account.
C9_HashDecidesOnGoodEscrow ==
    Audited =>
        /\ out.err = "" => CommitmentMatches(acct[E], out.claimed)
        /\ (~BadEscrow(acct[E]) /\ ~CommitmentMatches(acct[E], out.claimed))
              => out.err = "RefundHashMismatch"
        /\ (/\ ~BadEscrow(acct[E])
            /\ CommitmentMatches(acct[E], out.claimed)
            /\ WellFormedRefund(out.claimed)
            /\ OpSource(out.claimed.ops[1]) = E)
              => out.err = ""

C9_Witness ==
    /\ Audited /\ out.err = "RefundHashMismatch"
    /\ CommitmentMatches(acct[E], [out.claimed EXCEPT !.minTime = 1 - @])

\* ---- C10
\* C10: with the committed hash matched, the audit fails with
\* MalformedRefundTransaction unless the claimed transaction is a single
\* account merge from the audited account; on success it reports the
\* merge's destination and the transaction's lower time bound.
C10_MalformedRefundRejected ==
    Audited =>
        /\ (/\ ~BadEscrow(acct[E])
            /\ CommitmentMatches(acct[E], out.claimed)
            /\ ~WellFormedRefund(out.claimed))
              => out.err = "MalformedRefundTransaction"
        /\ out.err = "" =>
              /\ WellFormedRefund(out.claimed)
              /\ out.refundAddress = out.claimed.ops[1][3]
              /\ out.lockTime = out.claimed.minTime

\* ---- C11
\* C11: auditcontract on the holding account left by a successful run, with
\* the refund transaction the run returned, succeeds and reports the run's
\* secret hash, its counterparty, the funding address as refund address and
\* the run's locktime in whole seconds.
C11_RoundTrip ==
    [][(AuditCmd /\ b.pc = "done" /\ acct[E].exists) =>
          /\ out'.err = ""
          /\ out'.secretHash = b.secretHash
          /\ out'.recipient = b.cp
          /\ out'.refundAddress = F
          /\ out'.lockTime = Unix(b.locktime)]_vars

C11_Witness ==
    /\ out.cmd = "auditcontract" /\ out.err = ""
    /\ out.recipient = O /\ out.secretHash = sha256Hash("s2")
    /\ b.locktime = 3 /\ out.lockTime = Unix(3)

\* ------------------------------------------------- extractsecret claims
\* Every transaction that debited account a, whatever the page holds.
DebitingTransactions(history, a) ==
    LET debits == SelectSeq(AccountEffects(history, 1, a), IsDebit)
    IN  [n \in DOMAIN debits |-> history[debits[n].tx].env]

\* The page of the request holds every debiting effect of the account.
DebitsInPage ==
    GetAccountDebitediTransactions(settled, E) = DebitingTransactions(settled, E)

\* The one transaction that debited the holding account is a redeem
\* transaction carrying secret s.
OneRedeemCarrying(s) ==
    LET d == DebitingTransactions(settled, E) IN
    /\ Len(d) = 1
    /\ d[1].tx.ops = <<OpAccountMerge(E, d[1].tx.ops[1][3])>>
    /\ SigHashX(s) \in Range(d[1].sigs)

\* ---- C12
\* C12: auditcontract and extractsecret leave every account and the settled
\* transactions as they were, on success and on error.
C12_ReadOnlyCommands ==
    [][((\E h \in ExtractHashes : ExtractSecretCmd(E, h)) \/ AuditCmd)
          => (acct' = acct /\ settled' = settled)]_vars

C12_Witness ==
    /\ out.cmd = "auditcontract" /\ out.err = ""
    /\ acct[E].exists /\ Len(settled) > 2

C14_ZeroOrManyDebits ==
    [][\A h \in ExtractHashes :
          ExtractSecretCmd(E, h) =>
             /\ Len(DebitingTransactions(settled, E)) = 0
                   => (out'.err = "NotYetRedeemed" /\ out'.secret = NilBytes)
             /\ Len(DebitingTransactions(settled, E)) >= 2
                   => (out'.err = "AmbiguousSpend" /\ out'.secret = NilBytes)]_vars

\* ---- C15
\* C15: when the holding account has more effects than the page holds,
\* extractsecret answers AmbiguousSpend; it never answers NotYetRedeemed for
\* a holding account that a settled redeem transaction debited.
C15_OverflowIsAmbiguous ==
    [][\A h \in ExtractHashes :
          ExtractSecretCmd(E, h) =>
             /\ Len(AccountEffects(settled, 1, E)) > EffectsLimit
                   => out'.err = "AmbiguousSpend"
             /\ (\E s \in Secrets : OneRedeemCarrying(s))
                   => out'.err # "NotYetRedeemed"]_vars

\* ---- C16
\* C16: on the configured holding account the redeem transaction is accepted
\* with the preimage and the counterparty's signature in either order, to
\* the same effect, and rejected with either one alone or with none: each
\* alone weighs 1, both weigh 2.
C16_RedeemNeedsBoth ==
    (b.pc = "done" /\ acct[E].exists) =>
        \A s \in Secrets :
            sha256Hash(s) = b.secretHash =>
                LET tx == redeemTransaction(acct[E], b.cp)
                    X == SigHashX(s)
                    K == SigEd25519(b.cp)
                    Res(sigs) == SubmitTransaction(acct, [tx |-> tx, sigs |-> sigs], CloseTime)
                    Weight(sigs) == SignatureWeight(acct[E], [tx |-> tx, sigs |-> sigs])
                IN  /\ Res(<<X, K>>).ok /\ Res(<<K, X>>).ok
                    /\ Res(<<X, K>>).accounts = Res(<<K, X>>).accounts
                    /\ ~Res(<<X>>).included /\ ~Res(<<K>>).included /\ ~Res(<<>>).included
                    /\ Weight(<<X>>) = 1 /\ Weight(<<K>>) = 1
                    /\ Weight(<<X, K>>) = 2 /\ Weight(<<K, X>>) = 2
                    /\ acct[E].high = 2

C16_Witness ==
    /\ \E i \in Spends :
          /\ settled[i].ok
          /\ settled[i].env.sigs = <<SigEd25519(b.cp), SigHashX("s2")>>
    /\ ~acct[E].exists

\* ---- C17
\* C17: initiate locks for LockTime from its own reading of the clock and
\* participate for LockTime/2 from its own; the participant's duration is
\* exactly half of the initiator's and strictly shorter.
C17_LockDurations ==
    /\ [][\A cp \in CounterParties, s \in Secrets, amt \in 1..MaxAmount :
             InitiateStart(cp, s, amt) => b'.locktime - now = LockTime]_vars
    /\ [][\A cp \in CounterParties, h \in SecretHashes, amt \in 1..MaxAmount :
             ParticipateStart(cp, h, amt) =>
                /\ 2 * (b'.locktime - now) = LockTime
                /\ b'.locktime - now < LockTime]_vars

C17_Witness ==
    /\ b.pc = "done"
    /\ now = 2
    /\ b.locktime = 1 + LockTime \div 2

\* ---- C18
\* C18: a failed step ends the run: the error is kept, nothing is printed,
\* and from then on the run takes no step and no transaction settles; an
\* error is recorded only by ending the run.
C18_FailureIsTerminal ==
    /\ [](b.pc = "failed" => (b.err # "" /\ b.printed = NoPrinted))
    /\ [](b.err # "" => b.pc = "failed")
    /\ [][b.pc = "failed" => (b' = b /\ settled' = settled /\ acct' = acct)]_vars
    /\ [][(b'.pc = "failed" /\ b.pc # "failed") =>
            (/\ b'.err \in {"FetchError", "SubmissionError"}
             /\ b'.refundTx = b.refundTx /\ b'.env = b.env)]_vars

C18_Witness ==
    /\ b.pc = "failed" /\ b.err = "FetchError"
    /\ Len(settled) = 1 /\ b.refundTx # NoTx
    /\ Unconfigured(acct[E])

\* ---- C19
\* C19 as stated: the refund transaction's sequence number is the holding
\* account's, as fetched before building it, plus 1.
C19_RefundSeqPlusOne ==
    [][(CreateRefund /\ acct[E].exists) => b'.refundTx.seq = acct[E].seq + 1]_vars

\* C19 amended: the refund transaction's sequence number is the fetched one
\* plus 2, one past the number the signing-options transaction takes.
C19_RefundSeqPlusTwo ==
    /\ [][(CreateRefund /\ acct[E].exists) => b'.refundTx.seq = acct[E].seq + 2]_vars
    /\ [][(GetHoldingAccount /\ acct[E].exists) =>
            (b'.env.tx.seq = acct[E].seq + 1 /\ b.refundTx.seq = b'.env.tx.seq + 1)]_vars

C19_Witness ==
    /\ b.pc = "getHolding" /\ acct[E].exists
    /\ b.refundTx.seq = acct[E].seq + 2

\* ---- C20
\* C20: the run moves through its steps in one order; the signing-options
\* transaction is built and submitted only after the create-account
\* transaction settled successfully and the refund transaction was built,
\* and it carries the hash of that refund transaction.
BuilderOrder ==
    {<<"idle", "getFunding">>, <<"getFunding", "submitCreate">>,
     <<"submitCreate", "createRefund">>, <<"createRefund", "getHolding">>,
     <<"getHolding", "submitOptions">>, <<"submitOptions", "done">>}

IsCreate(env) == env.tx.ops = <<OpCreateAccount(F, E, b.amount)>>

IsSigningOptions(env) ==
    /\ Len(env.tx.ops) = 4
    /\ env.tx.ops[3] = OpSetSigner(E, CreateHashTxAddress(TxHash(b.refundTx)), 2)

C20_FixedOrder ==
    /\ [][b'.pc # b.pc => (<<b.pc, b'.pc>> \in BuilderOrder \/ b'.pc = "failed")]_vars
    /\ [](b.pc \in {"createRefund", "getHolding", "submitOptions", "done"} =>
            (/\ Len(settled) >= 1 /\ settled[1].ok /\ IsCreate(settled[1].env)))
    /\ [](b.pc \in {"getHolding", "submitOptions", "done"} => b.refundTx # NoTx)
    /\ [](b.pc = "submitOptions" => IsSigningOptions(b.env))
    /\ [](\A i \in DOMAIN settled :
            OpType(settled[i].env.tx.ops[1]) = "set_options_signer" =>
               (i = 2 /\ IsSigningOptions(settled[i].env)))

C20_Witness ==
    /\ b.pc = "done" /\ Len(settled) = 2
    /\ IsCreate(settled[1].env) /\ IsSigningOptions(settled[2].env)

\* ---- C21
\* C21: the refund, the signing-options and the redeem transaction each take
\* their sequence number from the holding account as the ledger holds it in
\* the step that builds them (the fetch and the build are one step, in which
\* nothing is submitted): the refund the fetched number plus 2, the other two
\* the fetched number plus 1, also when the number moved since an earlier
\* fetch.
C21_FreshSequenceNumber ==
    /\ [][(CreateRefund /\ acct[E].exists) =>
            /\ b'.refundTx.source = E
            /\ b'.refundTx.seq = IncrementSequenceNumber(IncrementSequenceNumber(acct[E])).seq
            /\ acct' = acct /\ settled' = settled]_vars
    /\ [][(GetHoldingAccount /\ acct[E].exists) =>
            /\ b'.env.tx.source = E
            /\ b'.env.tx.seq = IncrementSequenceNumber(acct[E]).seq
            /\ acct' = acct /\ settled' = settled]_vars
    /\ [][\A receiver \in CounterParties, secret \in Secrets :
             (RedeemBuild(receiver, secret) /\ acct[E].exists) =>
                /\ rd'.env.tx.source = E
                /\ rd'.env.tx.seq = IncrementSequenceNumber(acct[E]).seq
                /\ acct' = acct /\ settled' = settled]_vars

\* A redeem built on the configured holding account, whose sequence number
\* is no longer the one the run's first fetch saw.
C21_Witness ==
    /\ rd.pc = "submit" /\ acct[E].exists
    /\ acct[E].seq = 1 /\ rd.env.tx.seq = 2
    /\ Len(settled) = 2 /\ settled[2].env.tx.seq = 1

\* ---- C22
\* C22: whenever a submit call fails, by the ledger's rejection or in the
\* client, the command ends with the error SubmissionError: the run or the
\* command reports it, it does not abort otherwise and does not report
\* success.
SubmitRejected(env) == ~SubmitTransaction(acct, env, CloseTime).ok

C22_SubmitFailureIsReturned ==
    /\ [][\A err \in ClientErrors :
             /\ BuilderSubmitFails(err) => (b'.pc = "failed" /\ b'.err = "SubmissionError")
             /\ (RedeemSubmitFails(err) \/ RefundSubmitFails(err))
                   => out'.err = "SubmissionError"]_vars
    /\ [][((SubmitCreate \/ SubmitOptions) /\ SubmitRejected(b.env))
             => (b'.pc = "failed" /\ b'.err = "SubmissionError")]_vars
    /\ [][(RedeemSubmit /\ SubmitRejected(rd.env)) => out'.err = "SubmissionError"]_vars

\* ---- C23
\* C23: after a run that failed once its create-account transaction had
\* settled, the balance of the holding account can still be moved: some
\* transaction out of the holding account, signed with keys and preimages
\* that exist after the command returned, is accepted by the ledger now or
\* later.
\* The holding account's key pair is a local of initiate/participate: it
\* exists while the run is under way, and afterwards only if it was printed.
HoldingKeyInMemory ==
    b.pc \in {"getFunding", "submitCreate", "createRefund", "getHolding", "submitOptions"}

HoldingKeyPrinted == "holdingAccountSeed" \in DOMAIN b.printed

HoldingKeyKnown == HoldingKeyInMemory \/ HoldingKeyPrinted

\* The signatures that can be produced in the current state, up to two on
\* one transaction.
KnownSigPool ==
    <<SigEd25519(F), SigEd25519(R), SigEd25519(O), SigHashX("s1"), SigHashX("s2")>>
    \o (IF HoldingKeyKnown THEN <<SigEd25519(E)>> ELSE <<>>)

KnownSigs ==
    {[i \in DOMAIN q |-> KnownSigPool[q[i]]] :
        q \in {p \in SeqsUpTo(DOMAIN KnownSigPool, 2) : \A i \in DOMAIN p : i = 1 \/ p[i - 1] < p[i]}}

\* The transactions that take the balance out of the holding account: a
\* merge into any account, or the refund transaction the run had built.
MovingTxs ==
    {Build(acct[E], 0, 0, <<OpAccountMerge(E, dest)>>, targetNetwork) : dest \in {F, R, O}}
    \cup {b.refundTx}

Movable ==
    \E tx \in MovingTxs, sigs \in KnownSigs, t \in CloseTime..(Unix(MaxTime) + 1) :
        tx # NoTx /\ SubmitTransaction(acct, [tx |-> tx, sigs |-> sigs], t).ok

C23_FailedRunLeavesFundsMovable ==
    (b.pc = "failed" /\ acct[E].exists /\ acct[E].balance > 0) => Movable

\* ---- C24
\* The participant's run has built its refund transaction, with the
\* initiator's contract printed before.
BothRefundsBuilt == out.cmd = "initiate" /\ b.refundTx # NoTx

\* C24 as stated: whatever the delay between initiate and participate, the
\* time bound of the participant's refund transaction is strictly earlier
\* than the time bound of the initiator's.
C24_ParticipantAlwaysEarlier ==
    BothRefundsBuilt => b.refundTx.minTime < out.lockTime

\* C24 amended: the participant's time bound is strictly earlier than the
\* initiator's exactly when participate reads its clock more than
\* LockTime/2 before the initiator's time bound, as it does when it follows
\* initiate within a few ticks; the bound the initiator printed is its
\* locktime in whole seconds, and so is the participant's.
C24_EarlierWithinHalfLockTime ==
    /\ [][InitiateDone => out'.lockTime = Unix(b.locktime)]_vars
    /\ [][\A cp \in CounterParties, amt \in 1..MaxAmount :
             SwapParticipate(cp, amt) =>
                (Unix(b'.locktime) < out.lockTime
                   <=> now + LockTime \div 2 < out.lockTime * TicksPerSec)]_vars
    /\ [](BothRefundsBuilt => b.refundTx.minTime = Unix(b.locktime))
    /\ [](BothRefundsBuilt /\ now <= MaxTime => b.refundTx.minTime < out.lockTime)

\* Participate ran a second short of LockTime/2 after the initiator's
\* contract and its time bound is the earlier one.
C24_Witness ==
    /\ BothRefundsBuilt /\ b.pc = "done"
    /\ now > MaxTime
    /\ b.refundTx.minTime < out.lockTime

C26_SameSequenceSlot ==
    [][\A receiver \in CounterParties, secret \in Secrets :
          (RedeemBuild(receiver, secret) /\ acct[E].exists) =>
             /\ rd'.env.tx.seq = acct[E].seq + 1
             /\ rd'.env.tx.seq = b.refundTx.seq]_vars

\* The refund transaction of the run is accepted at no close time.
RefundDead ==
    \A t \in 0..(Unix(MaxTime) + 1) :
        ~SubmitTransaction(acct, [tx |-> TransactionFromXDR(b.refundTx), sigs |-> <<>>], t).included

\* C26 amended: the redeem transaction takes the account's current number
\* plus 1; that is the refund transaction's number as long as no
\* transaction of the holding account settled after the signing options.
\* Once one has, the redeem transaction's number is past the refund
\* transaction's, and the refund transaction is no longer accepted.
C26_SameSlotUntilSpent ==
    [][\A receiver \in CounterParties, secret \in Secrets :
          (RedeemBuild(receiver, secret) /\ acct[E].exists) =>
             /\ rd'.env.tx.seq = acct[E].seq + 1
             /\ Spends = {} => rd'.env.tx.seq = b.refundTx.seq
             /\ Spends # {} => (rd'.env.tx.seq > b.refundTx.seq /\ RefundDead)]_vars

C26_Witness ==
    /\ rd.pc = "submit" /\ acct[E].exists /\ Spends = {}
    /\ rd.env.tx.seq = b.refundTx.seq
    /\ rd.env.tx.seq = acct[E].seq + 1
    /\ settled[2].env.tx.seq + 1 = b.refundTx.seq

====
